---- MODULE Spec2Model ----
(***************************************************************************)
(* Shelf Timer (src/streamlit_app.py): the pantry ledger, the analytics    *)
(* functions computed from it (expiry finder, grocery recommender,         *)
(* sustainability dashboard, top items, tier message) and the handlers     *)
(* that change the in-memory frame of a script run.                        *)
(*                                                                         *)
(* Data representation.                                                    *)
(*  - A ledger (a pandas DataFrame with a RangeIndex) is a sequence of     *)
(*    rows; the index label of a row is its position.  A frame derived     *)
(*    from it (a filtered or concatenated DataFrame) is a sequence of      *)
(*    entries [idx, row]: pandas keeps the index label of every row.       *)
(*  - A cell of a numeric or date column is one of                         *)
(*       Num(n)   a number n,                                              *)
(*       Date(d)  the text "YYYY-MM-DD" of day number d,                   *)
(*       Text(t)  any other text (t = 0 is the empty cell),                *)
(*    so that pd.to_datetime / pd.to_numeric with errors="coerce" are      *)
(*    conversions that can fail, not the identity.                         *)
(*  - A parsed date is a day number >= 0 or NaT; every comparison with     *)
(*    NaT is false, as in pandas.                                          *)
(*  - Floats: money and mass are sums of products of the integers of the   *)
(*    model; CO2 in kg = mass / 1000 * 2.5 is kept exactly, in milligrams  *)
(*    (mass * 2500).                                                       *)
(***************************************************************************)
EXTENDS Integers, Sequences, FiniteSets, TLC

VARIABLES
    sheet,      \* the worksheet "DB": the persisted ledger
    logged_in,  \* st.session_state.logged_in
    username,   \* st.session_state.username / the username argument
    df,         \* the DataFrame of the current script run
    today,      \* pd.Timestamp.today().normalize(), as a day number
    out,        \* what the last operation returned or displayed
    session,    \* st.session_state without logged_in and username
    open_chat   \* whether "open_chat" is in st.query_params

vars == <<sheet, logged_in, username, df, today, out, session, open_chat>>

-----------------------------------------------------------------------------
(* Cells and conversions                                                   *)

Num(n) == [k |-> "num", v |-> n]

Date(d) == [k |-> "date", v |-> d]

Text(t) == [k |-> "text", v |-> t]

\* pandas' NaT: what errors="coerce" yields for a cell that is not a date.
NaT == -1

\* username is None (nobody logged in).
None == "<None>"

\* pd.to_datetime(cell, errors="coerce")
to_datetime(c) ==
    IF c.k = "date" THEN c.v ELSE NaT

\* pd.to_numeric(cell, errors="coerce") followed by .fillna(0)
to_numeric_fillna0(c) ==
    IF c.k = "num" THEN c.v ELSE 0

\* str.lower() on the remarks the model uses.
lower(s) ==
    CASE s = "TRASHED" -> "trashed"
      [] s = "Trashed" -> "trashed"
      [] OTHER -> s

\* The cell pd.to_datetime(column, errors="coerce") leaves in a column it is
\* assigned to: a Timestamp, or NaT.
Timestamp(c) ==
    IF c.k = "date" THEN [k |-> "ts", v |-> c.v] ELSE [k |-> "nat", v |-> 0]

\* Timestamp comparisons: False whenever an operand is NaT.
DateLt(a, b) == a # NaT /\ b # NaT /\ a < b

DateGe(a, b) == a # NaT /\ b # NaT /\ a >= b

DateLe(a, b) == a # NaT /\ b # NaT /\ a <= b

-----------------------------------------------------------------------------
(* Frames                                                                  *)

\* A ledger with its RangeIndex.
Frame(d) ==
    [i \in 1..Len(d) |-> [idx |-> i, row |-> d[i]]]

\* df.columns: the keys of the records the worksheet returned; a frame built
\* from no record (an empty worksheet, pd.DataFrame()) has no column.
columns(d) ==
    IF Len(d) = 0 THEN {} ELSE DOMAIN d[1]

\* df[df["Username"] == username]
UserFrame(d, u) ==
    SelectSeq(Frame(d), LAMBDA e : e.row.Username = u)

\* The index labels of a frame.
Index(f) ==
    {f[i].idx : i \in 1..Len(f)}

\* The index labels of a frame, in frame order.
IndexSeq(f) ==
    [i \in 1..Len(f) |-> f[i].idx]

\* A row of the sheet as the columns the analytics read.
MkRow(u, fn, bd, qu, q, w, p, de, ex, rm) ==
    [Username |-> u, Food_Name |-> fn, Brand |-> bd, QUnit |-> qu,
     Quantity |-> q, Weight |-> w, Price |-> p,
     Date_of_Entry |-> de, Expiry_Date |-> ex, Remarks |-> rm]

\* All sequences over S of length at most n.
SeqUpTo(S, n) ==
    UNION {[1..k -> S] : k \in 0..n}

\* Nothing computed yet.
NoOut == [op |-> "none"]

\* The session keys of a run without "open_chat" in the URL: show_chat is
\* initialised to False.
NoChat == [show_chat |-> FALSE]

-----------------------------------------------------------------------------
(* Expiry Finder                                                           *)

\* today <= Expiry_Date <= deadline, on parsed dates.
ExpiryWindowExclusive(exp, t, deadline) ==
    DateGe(exp, t) /\ DateLt(exp, deadline)

ExpiryWindow(exp, t, deadline) ==
    DateGe(exp, t) /\ DateLe(exp, deadline)

\* A slip: the check of the column left out.
SkipColumnCheck(d, c) == TRUE

\* "<column>" in df.columns
HasColumn(d, c) == c \in columns(d)

\* A slip: user_df = df, without .copy(): the writes of the callee land in the
\* caller's frame.
no_copy(d, written) == written

\* The caller's frame d after a callee took d.copy() and assigned columns of
\* the copy, which then reads `written`.
copy(d, written) == d

\* df["<column>"] raises KeyError for a column the frame lacks.
KeyError(d, cs) == \E c \in cs : c \notin columns(d)

\* What a function returns when an exception ends it.
Raised(d) == [raised |-> TRUE, result |-> <<>>, df |-> d]

\* get_expiring_items(df, username, days) at reference date t: the frame it
\* returns, whether it raised instead, and the caller's frame after the call.
get_expiring_items(d, u, days, t) ==
    LET deadline == t + days
        by_user  == HasColumn(d, "Username") /\ u # None
        user_df  == IF by_user THEN UserFrame(d, u) ELSE Frame(d)
        parsed   == [i \in 1..Len(user_df) |->
                        [user_df[i] EXCEPT !.row.Expiry_Date = to_datetime(@)]]
        written  == [i \in 1..Len(d) |->
                        [d[i] EXCEPT !.Expiry_Date = Timestamp(@)]]
    IN  IF ~HasColumn(d, "Expiry_Date")
        THEN [raised |-> FALSE, result |-> <<>>, df |-> d]
        ELSE IF KeyError(d, {"Expiry_Date"} \cup (IF by_user THEN {"Username"} ELSE {}))
        THEN Raised(d)
        ELSE [raised |-> FALSE,
              result |-> SelectSeq(parsed, LAMBDA e :
                             ExpiryWindow(e.row.Expiry_Date, t, deadline)),
              df     |-> IF by_user THEN d ELSE copy(d, written)]

\* Bound of the ledgers of SpecExpiry.
MaxExpiryRows == 3

ExpiryUsers == {"snackhoarder", "canofbeans"}

ExpiryRows ==
    {MkRow(u, "Milk", "Acme", "pack", Num(1), Num(1000), Num(3), Date(5), ex, "") :
        u \in ExpiryUsers,
        ex \in {Date(9), Date(10), Date(11), Date(12), Date(13), Text(0)}}

InitExpiry ==
    /\ df \in SeqUpTo(ExpiryRows, MaxExpiryRows)
    /\ sheet = <<>>
    /\ logged_in = TRUE
    /\ username \in ExpiryUsers \cup {None}
    /\ today = 10
    /\ out = NoOut
    /\ session = NoChat
    /\ open_chat = FALSE

\* tab1: the slider value and the call of get_expiring_items.
ShowExpiring(days) ==
    LET r == get_expiring_items(df, username, days, today)
    IN  /\ out' = [op |-> "get_expiring_items", days |-> days, before |-> df,
                   raised |-> r.raised, result |-> r.result]
        /\ df' = r.df
        /\ UNCHANGED <<sheet, logged_in, username, today, session, open_chat>>

NextExpiry ==
    \E days \in {1, 2} : ShowExpiring(days)

SpecExpiry == InitExpiry /\ [][NextExpiry]_vars

\* C4: with a username given, get_expiring_items returns exactly the rows of
\* that user whose expiry date parses and lies in [today, today + days], both
\* bounds included, in ledger order; a row whose expiry date does not parse
\* and a row of another user are never returned.
C4_ExpiringExact ==
    (out.op = "get_expiring_items" /\ username # None) =>
        LET res == IndexSeq(out.result)
        IN  /\ \A i \in 1..Len(df) :
                (i \in Index(out.result)) <=>
                    /\ df[i].Username = username
                    /\ df[i].Expiry_Date.k = "date"
                    /\ today <= df[i].Expiry_Date.v
                    /\ df[i].Expiry_Date.v <= today + out.days
            /\ Index(out.result) \subseteq 1..Len(df)
            /\ \A a, b \in 1..Len(res) : a < b => res[a] < res[b]

\* A call with a username that returned a row expiring on the deadline and,
\* after it, a row expiring today, while a row of that user whose expiry date
\* does not parse was left out.
C4_Witness ==
    /\ out.op = "get_expiring_items"
    /\ username # None
    /\ \E i, j \in Index(out.result) :
          /\ i < j
          /\ df[i].Expiry_Date = Date(today + out.days)
          /\ df[j].Expiry_Date = Date(today)
    /\ \E i \in 1..Len(df) :
          /\ df[i].Username = username
          /\ df[i].Expiry_Date.k = "text"
          /\ i \notin Index(out.result)

-----------------------------------------------------------------------------
(* Tiering                                                                 *)

\* Milligrams per kilogram: c is co2_saved in kg, kept in milligrams.
MgPerKg == 1000 * 1000

\* A slip: the first level reached on its CO2 threshold instead of above it.
level_msg_at_threshold(c, m) ==
    IF c > 200 * MgPerKg /\ m > 400 THEN "Level 4: Sustainability Champion!"
    ELSE IF c > 100 * MgPerKg /\ m > 200 THEN "Level 3: Outstanding savings!"
    ELSE IF c > 50 * MgPerKg /\ m > 100 THEN "Level 2: Great impact!"
    ELSE IF c >= 10 * MgPerKg /\ m > 20 THEN "Level 1: Good start!"
    ELSE "Getting Started"

level_msg(c, m) ==
    IF c > 200 * MgPerKg /\ m > 400 THEN "Level 4: Sustainability Champion!"
    ELSE IF c > 100 * MgPerKg /\ m > 200 THEN "Level 3: Outstanding savings!"
    ELSE IF c > 50 * MgPerKg /\ m > 100 THEN "Level 2: Great impact!"
    ELSE IF c > 10 * MgPerKg /\ m > 20 THEN "Level 1: Good start!"
    ELSE "Getting Started"

\* co2_saved values (mg) and money_saved values around every threshold.
TierCo2 ==
    {0, 10 * MgPerKg, 10 * MgPerKg + 1, 50 * MgPerKg, 50 * MgPerKg + 1,
     60 * MgPerKg, 100 * MgPerKg, 100 * MgPerKg + 1, 200 * MgPerKg,
     200 * MgPerKg + 1, 250 * MgPerKg}

TierMoney ==
    {0, 20, 21, 50, 100, 101, 200, 201, 400, 401, 500}

InitTier ==
    /\ df = <<>>
    /\ sheet = <<>>
    /\ logged_in = TRUE
    /\ username = "snackhoarder"
    /\ today = 10
    /\ out = NoOut
    /\ session = NoChat
    /\ open_chat = FALSE

\* tab4: st.success(level_msg(co2_saved, money_saved))
ShowLevel(c, m) ==
    /\ out' = [op |-> "level_msg", c |-> c, m |-> m, msg |-> level_msg(c, m)]
    /\ UNCHANGED <<sheet, logged_in, username, df, today, session, open_chat>>

NextTier ==
    \E c \in TierCo2, m \in TierMoney : ShowLevel(c, m)

SpecTier == InitTier /\ [][NextTier]_vars

\* The level a message names; 0 is the baseline "Getting Started".
TierNumber(msg) ==
    CASE msg = "Level 4: Sustainability Champion!" -> 4
      [] msg = "Level 3: Outstanding savings!" -> 3
      [] msg = "Level 2: Great impact!" -> 2
      [] msg = "Level 1: Good start!" -> 1
      [] msg = "Getting Started" -> 0

\* The claim's thresholds (co2 in kg, money) of levels 1..4.
TierThresholds == <<(<<10, 20>>), (<<50, 100>>), (<<100, 200>>), (<<200, 400>>)>>

\* The levels whose two thresholds are both strictly exceeded.
TierReached(c, m) ==
    {k \in 1..4 : c > TierThresholds[k][1] * MgPerKg /\ m > TierThresholds[k][2]}

\* C9: the tier shown for (co2_saved, money_saved) is the highest level whose
\* two thresholds are both strictly exceeded, the baseline when none is;
\* (250, 500) gives level 4 and (60, 50) level 1; a value on a threshold does
\* not reach that level; raising both inputs never lowers the tier.
C9_TierIsHighestExceeded ==
    out.op = "level_msg" =>
        LET K == TierReached(out.c, out.m)
            n == TierNumber(out.msg)
        IN  /\ n = IF K = {} THEN 0 ELSE CHOOSE k \in K : \A j \in K : j <= k
            /\ (out.c = 250 * MgPerKg /\ out.m = 500) => n = 4
            /\ (out.c = 60 * MgPerKg /\ out.m = 50) => n = 1
            /\ \A k \in 1..4 :
                  (out.c = TierThresholds[k][1] * MgPerKg
                     \/ out.m = TierThresholds[k][2]) => n < k
            /\ \A c2 \in TierCo2, m2 \in TierMoney :
                  (c2 >= out.c /\ m2 >= out.m) => TierNumber(level_msg(c2, m2)) >= n

\* The tier of (60 kg, 50) was shown: the money threshold of level 2 fails and
\* the tier falls to level 1.
C9_Witness ==
    /\ out.op = "level_msg"
    /\ out.c = 60 * MgPerKg
    /\ out.m = 50
    /\ out.msg = "Level 1: Good start!"

-----------------------------------------------------------------------------
(* Grocery Recommender                                                     *)

\* Python's str order on the names the model uses (groupby sorts its keys).
StrOrder ==
    <<"Acme", "Apple", "Best", "Bread", "Corn", "Dates", "Eggs", "Figs",
      "Grapes", "Milk", "Rice", "lb", "pack">>

StrRank(s) ==
    CHOOSE i \in 1..Len(StrOrder) : StrOrder[i] = s

StrLess(a, b) == StrRank(a) < StrRank(b)

RECURSIVE SumSeq(_)
\* Series.sum()
SumSeq(s) ==
    IF s = <<>> THEN 0 ELSE Head(s) + SumSeq(Tail(s))

\* A slip: .astype(int) without .round() truncates toward zero.
RoundTruncate(n, d) ==
    IF n >= 0 THEN n \div d ELSE -((-n) \div d)

\* Series.round() of n / d for d > 0: numpy rounds half to even.
RoundHalfEven(n, d) ==
    LET f == n \div d
        r == n - f * d
    IN  IF 2 * r > d THEN f + 1
        ELSE IF 2 * r < d THEN f
        ELSE IF f % 2 = 0 THEN f ELSE f + 1

\* A slip: >= 0 keeps the groups whose projection rounds to zero.
KeepRecommendedNonNegative(r) == r >= 0

\* usage["Recommended_Quantity"] > 0
KeepRecommended(r) == r > 0

\* The groupby key of a row.
GroupKey(row) ==
    <<row.Food_Name, row.Brand, row.QUnit>>

\* Tuple order of the groupby keys.
KeyLess(a, b) ==
    \/ StrLess(a[1], b[1])
    \/ a[1] = b[1] /\ StrLess(a[2], b[2])
    \/ a[1] = b[1] /\ a[2] = b[2] /\ StrLess(a[3], b[3])

RECURSIVE SortKeys(_)
\* The keys of a groupby, in the order groupby(sort=True) yields them.
SortKeys(S) ==
    IF S = {} THEN <<>>
    ELSE LET m == CHOOSE x \in S : \A y \in S \ {x} : KeyLess(x, y)
         IN  <<m>> \o SortKeys(S \ {m})

\* generate_grocery_list(df, username, days_ahead) at reference date t: the
\* frame it returns, whether it raised instead, and the caller's frame after
\* the call.
generate_grocery_list(d, u, days_ahead, t) ==
    LET by_user == HasColumn(d, "Username") /\ u # None
        written == [i \in 1..Len(d) |->
                       [d[i] EXCEPT !.Date_of_Entry = Timestamp(@)]]
        after   == copy(d, written)
        tmp     == [i \in 1..Len(d) |->
                       [idx |-> i,
                        row |-> [d[i] EXCEPT !.Date_of_Entry = to_datetime(@)]]]
        recent0 == SelectSeq(tmp, LAMBDA e :
                       /\ (by_user => e.row.Username = u)
                       /\ DateGe(e.row.Date_of_Entry, t - 30))
        recent  == [i \in 1..Len(recent0) |->
                       [recent0[i] EXCEPT !.row.Quantity = to_numeric_fillna0(@)]]
        keys    == SortKeys({GroupKey(recent[i].row) : i \in 1..Len(recent)})
        total(k) == SumSeq([i \in 1..Len(recent) |->
                       IF GroupKey(recent[i].row) = k
                       THEN recent[i].row.Quantity ELSE 0])
        usage   == [i \in 1..Len(keys) |->
                       [Food_Name |-> keys[i][1], Brand |-> keys[i][2],
                        QUnit |-> keys[i][3],
                        Recommended_Quantity |->
                            RoundHalfEven(total(keys[i]) * days_ahead, 30)]]
    IN  IF ~HasColumn(d, "Date_of_Entry")
        THEN [raised |-> FALSE, result |-> <<>>, df |-> d]
        ELSE IF KeyError(d, {"Date_of_Entry"} \cup (IF by_user THEN {"Username"} ELSE {}))
        THEN Raised(d)
        ELSE IF recent0 = <<>>
        THEN [raised |-> FALSE, result |-> <<>>, df |-> after]
        ELSE IF KeyError(d, {"Quantity", "Food_Name", "Brand", "QUnit"})
        THEN Raised(after)
        ELSE [raised |-> FALSE,
              result |-> SelectSeq(usage, LAMBDA g :
                             KeepRecommended(g.Recommended_Quantity)),
              df     |-> after]

\* Bound of the ledgers of SpecGrocery.
MaxGroceryRows == 2

GroceryKeys ==
    {<<"Milk", "Acme", "pack">>, <<"Rice", "Acme", "pack">>, <<"Milk", "Best", "lb">>}

GroceryRows ==
    {MkRow(u, k[1], k[2], k[3], q, Num(1000), Num(3), de, Date(50), "") :
        u \in {"snackhoarder", "canofbeans"},
        k \in GroceryKeys,
        q \in {Num(15), Num(30), Text(0)},
        de \in {Date(9), Date(10), Text(0)}}

InitGrocery ==
    /\ df \in SeqUpTo(GroceryRows, MaxGroceryRows)
    /\ sheet = <<>>
    /\ logged_in = TRUE
    /\ username = "snackhoarder"
    /\ today = 40
    /\ out = NoOut
    /\ session = NoChat
    /\ open_chat = FALSE

\* tab3: the slider value and the call of generate_grocery_list.
ShowGroceryList(days) ==
    LET r == generate_grocery_list(df, username, days, today)
    IN  /\ out' = [op |-> "generate_grocery_list", days |-> days, before |-> df,
                   raised |-> r.raised, result |-> r.result]
        /\ df' = r.df
        /\ UNCHANGED <<sheet, logged_in, username, today, session, open_chat>>

NextGrocery ==
    \E days \in {-1, 0, 1, 7} : ShowGroceryList(days)

SpecGrocery == InitGrocery /\ [][NextGrocery]_vars

\* The sum of the numeric quantities of the rows of the requested user in group
\* k entered in the last 30 days, computed from the ledger itself.
GroupTotal(k) ==
    SumSeq([i \in 1..Len(df) |->
        IF /\ df[i].Username = username
           /\ GroupKey(df[i]) = k
           /\ df[i].Date_of_Entry.k = "date"
           /\ df[i].Date_of_Entry.v >= today - 30
           /\ df[i].Quantity.k = "num"
        THEN df[i].Quantity.v ELSE 0])

\* Whether the requested user has a row of group k in the last 30 days.
GroupPresent(k) ==
    \E i \in 1..Len(df) :
        /\ df[i].Username = username
        /\ GroupKey(df[i]) = k
        /\ df[i].Date_of_Entry.k = "date"
        /\ df[i].Date_of_Entry.v >= today - 30

\* r is n / 30 rounded to the nearest integer, a tie going to the even one.
IsRounded(r, n) ==
    LET e == 30 * r - n
        a == IF e >= 0 THEN e ELSE -e
    IN  2 * a < 30 \/ (2 * a = 30 /\ r % 2 = 0)

\* The rows of a grocery list for group k.
ListRows(list, k) ==
    {i \in 1..Len(list) :
        <<list[i].Food_Name, list[i].Brand, list[i].QUnit>> = k}

\* C5: for every (food_name, brand, unit) group of the requested user's rows of
\* the last 30 days, with S its quantity sum (an unparseable quantity counting 0,
\* other users' rows and older or undated rows nothing), the list holds one row
\* for the group with recommended_quantity = round(S / 30 * days_ahead) when
\* that is positive; S = 30 and days_ahead = 7 give 7.
C5_RecommendedIsRoundedRate ==
    (out.op = "generate_grocery_list" /\ username # None) =>
        \A k \in GroceryKeys :
            LET n    == GroupTotal(k) * out.days
                rows == ListRows(out.result, k)
            IN  /\ \A i \in rows :
                    /\ GroupPresent(k)
                    /\ IsRounded(out.result[i].Recommended_Quantity, n)
                    /\ rows = {i}
                /\ (GroupPresent(k) /\ 2 * n > 30) => rows # {}
                /\ (GroupTotal(k) = 30 /\ out.days = 7) =>
                      \E i \in rows : out.result[i].Recommended_Quantity = 7

\* A list for 7 days ahead in which one group sums two rows to 45 and gets
\* round(10.5) = 10, while a row of the other user is in the ledger.
C5_Witness ==
    /\ out.op = "generate_grocery_list"
    /\ username # None
    /\ out.days = 7
    /\ \E k \in GroceryKeys :
          /\ GroupTotal(k) = 45
          /\ \E i \in ListRows(out.result, k) :
                out.result[i].Recommended_Quantity = 10

\* C6: every row of a grocery list has recommended_quantity >= 1, whatever the
\* ledger and days_ahead; with days_ahead zero or negative the list is empty.
C6_RecommendedAtLeastOne ==
    out.op = "generate_grocery_list" =>
        /\ \A i \in 1..Len(out.result) : out.result[i].Recommended_Quantity >= 1
        /\ out.days <= 0 => out.result = <<>>

\* A list that left out a group whose quantity sum is positive but whose
\* projection rounds to zero, and a list computed for days_ahead = 0.
C6_Witness ==
    /\ out.op = "generate_grocery_list"
    /\ username # None
    /\ \/ /\ out.days = 1
          /\ \E k \in GroceryKeys :
                GroupTotal(k) = 15 /\ ListRows(out.result, k) = {}
       \/ /\ out.days = 0
          /\ \E k \in GroceryKeys : GroupTotal(k) > 0
          /\ out.result = <<>>

-----------------------------------------------------------------------------
(* Classification, Sustainability Aggregator, Top-N                        *)

\* CO2_PER_KG = 2.5, times ten.
CO2_PER_KG_x10 == 25

\* (total / 1000) * CO2_PER_KG for a mass in grams, in milligrams of CO2.
Co2Mg(total) ==
    total * CO2_PER_KG_x10 * 100

\* round(x, 2) of a CO2 figure kept in milligrams (0.01 kg = 10000 mg).
Round2Mg(mg) ==
    RoundHalfEven(mg, 10000) * 10000

\* DataFrame.drop_duplicates(): of the rows equal in every column, the first
\* is kept; the index plays no part in the comparison.
drop_duplicates(f) ==
    LET pos == SelectSeq([i \in 1..Len(f) |-> i],
                         LAMBDA i : \A j \in 1..(i - 1) : f[j].row # f[i].row)
    IN  [n \in 1..Len(pos) |-> f[pos[n]]]

\* DataFrame.drop(labels, errors="ignore")
drop(f, labels) ==
    SelectSeq(f, LAMBDA e : e.idx \notin labels)

\* The columns sustainability_dashboard rewrites on its copy of the user's rows.
DashRow(r) ==
    [r EXCEPT !.Remarks = lower(@),
              !.Quantity = to_numeric_fillna0(@),
              !.Weight = to_numeric_fillna0(@),
              !.Price = to_numeric_fillna0(@),
              !.Expiry_Date = to_datetime(@),
              !.Date_of_Entry = to_datetime(@)]

\* Series.max() of a datetime column: NaT when no value is a date.
MaxDate(f) ==
    LET ds == {f[i].row.Date_of_Entry : i \in 1..Len(f)} \ {NaT}
    IN  IF ds = {} THEN NaT ELSE CHOOSE x \in ds : \A y \in ds : y <= x

\* sustainability_dashboard(df, username) at reference date t.  NaT.strftime
\* raises, so the function returns nothing when the user has no dated row.
sustainability_dashboard(d, u, t) ==
    LET raw     == UserFrame(d, u)
        user_df == [i \in 1..Len(raw) |-> [raw[i] EXCEPT !.row = DashRow(@)]]
        trashed == SelectSeq(user_df, LAMBDA e : e.row.Remarks = "trashed")
        expired == SelectSeq(user_df, LAMBDA e : DateLt(e.row.Expiry_Date, t))
        wasted  == drop_duplicates(trashed \o expired)
        used    == drop(user_df, Index(wasted))
        mass(f) == SumSeq([i \in 1..Len(f) |-> f[i].row.Quantity * f[i].row.Weight])
        cost(f) == SumSeq([i \in 1..Len(f) |-> f[i].row.Price * f[i].row.Quantity])
        last    == MaxDate(user_df)
    IN  IF last = NaT
        THEN [raised |-> TRUE]
        ELSE [raised       |-> FALSE,
              wasted       |-> IndexSeq(wasted),
              used         |-> IndexSeq(used),
              co2_emitted  |-> Co2Mg(mass(wasted)),
              co2_saved    |-> Co2Mg(mass(used)),
              money_wasted |-> cost(wasted),
              money_saved  |-> cost(used),
              metrics      |->
                  [User |-> u,
                   Unique_Products |->
                       Cardinality({user_df[i].row.Food_Name : i \in 1..Len(user_df)}),
                   Last_Shopping_Date |-> last,
                   CO2_Emissions |-> Round2Mg(Co2Mg(mass(wasted))),
                   CO2_Saved |-> Round2Mg(Co2Mg(mass(used))),
                   Money_Lost |-> cost(wasted),
                   Money_Saved |-> cost(used)]]

\* The rows top_items groups: `filtered`.  Only Expiry_Date is parsed on the
\* copy; Remarks is lowercased for the comparison alone.
top_items_filtered(d, u, mode, t) ==
    LET raw     == UserFrame(d, u)
        user_df == [i \in 1..Len(raw) |->
                       [raw[i] EXCEPT !.row.Expiry_Date = to_datetime(@)]]
        trashed == SelectSeq(user_df, LAMBDA e : lower(e.row.Remarks) = "trashed")
        expired == SelectSeq(user_df, LAMBDA e : DateLt(e.row.Expiry_Date, t))
    IN  IF mode = "waste"
        THEN drop_duplicates(trashed \o expired)
        ELSE drop(user_df, Index(trashed \o expired))

RECURSIVE SortNames(_)
\* The keys of groupby("Food_Name"), which sorts them.
SortNames(S) ==
    IF S = {} THEN <<>>
    ELSE LET m == CHOOSE x \in S : \A y \in S \ {x} : StrLess(x, y)
         IN  <<m>> \o SortNames(S \ {m})

\* filtered.groupby("Food_Name")["Quantity"].sum().reset_index(), on numeric
\* Quantity cells (the column is not coerced here).
GroupByFoodName(f) ==
    LET names == SortNames({f[i].row.Food_Name : i \in 1..Len(f)})
    IN  [n \in 1..Len(names) |->
            [Food_Name |-> names[n],
             Quantity  |-> SumSeq([i \in 1..Len(f) |->
                               IF f[i].row.Food_Name = names[n]
                               THEN f[i].row.Quantity.v ELSE 0])]]

RECURSIVE SortedOrders(_)
\* sort_values("Quantity", ascending=False) with the default kind="quicksort",
\* which is not stable: every descending arrangement of the groups, equal
\* sums in any order.
SortedOrders(S) ==
    IF S = {} THEN {<<>>}
    ELSE LET mx == {g \in S : \A h \in S : h.Quantity <= g.Quantity}
         IN  UNION {{<<g>> \o rest : rest \in SortedOrders(S \ {g})} : g \in mx}

\* DataFrame.head(n)
head(s, n) ==
    SubSeq(s, 1, IF Len(s) < n THEN Len(s) ELSE n)

\* The frames top_items(df, username, mode) can return at reference date t.
top_items(d, u, mode, t) ==
    LET grouped == GroupByFoodName(top_items_filtered(d, u, mode, t))
    IN  {head(s, 5) : s \in SortedOrders({grouped[n] : n \in 1..Len(grouped)})}

\* tab4: sustainability_dashboard, the tier message, then top_items in both
\* modes.  An exception in sustainability_dashboard ends the script run.
ShowDashboard ==
    LET dash == sustainability_dashboard(df, username, today)
    IN  /\ \E wdf \in top_items(df, username, "waste", today),
              udf \in top_items(df, username, "used", today) :
            out' = IF dash.raised
                   THEN [op |-> "dashboard", raised |-> TRUE]
                   ELSE [op |-> "dashboard", raised |-> FALSE,
                         dash |-> dash,
                         level |-> level_msg(dash.co2_saved, dash.money_saved),
                         waste_filtered |->
                             IndexSeq(top_items_filtered(df, username, "waste", today)),
                         used_filtered |->
                             IndexSeq(top_items_filtered(df, username, "used", today)),
                         wdf |-> wdf,
                         udf |-> udf]
        /\ UNCHANGED <<sheet, logged_in, username, df, today, session, open_chat>>

\* Bound of the ledgers of SpecClassify.
MaxClassifyRows == 2

ClassifyRows ==
    {MkRow(u, "Milk", "Acme", "pack", q, Num(1000), Num(3), Date(5), ex, rm) :
        u \in {"snackhoarder", "canofbeans"},
        q \in {Num(1), Num(2)},
        ex \in {Date(9), Date(10), Text(0)},
        rm \in {"", "TRASHED", "trashed"}}

InitClassify ==
    /\ df \in SeqUpTo(ClassifyRows, MaxClassifyRows)
    /\ sheet = <<>>
    /\ logged_in = TRUE
    /\ username \in {"snackhoarder", "canofbeans"}
    /\ today \in {10, 11}
    /\ out = NoOut
    /\ session = NoChat
    /\ open_chat = FALSE

NextClassify == ShowDashboard

SpecClassify == InitClassify /\ [][NextClassify]_vars

\* The elements of a sequence.
Range(q) ==
    {q[i] : i \in 1..Len(q)}

\* The index labels of the rows of the requested user.
UserRows ==
    {i \in 1..Len(df) : df[i].Username = username}

\* Remarks equal to "trashed", compared case-insensitively.
IsTrashed(r) ==
    r.Remarks \in {"trashed", "TRASHED", "Trashed"}

\* The expiry date parses and is strictly before the reference date.
IsExpired(r) ==
    r.Expiry_Date.k = "date" /\ r.Expiry_Date.v < today

\* The rows of the requested user that are trashed or expired.
WastedRows ==
    {i \in UserRows : IsTrashed(df[i]) \/ IsExpired(df[i])}

\* Two rows of the requested user that sustainability_dashboard cannot tell
\* apart: equal in every column once the columns are coerced.
HasTwinRows ==
    \E i, j \in UserRows : i # j /\ DashRow(df[i]) = DashRow(df[j])

\* Sum of g(i) over the index labels in S.
SumOver(S, g(_)) ==
    SumSeq([i \in 1..Len(df) |-> IF i \in S THEN g(i) ELSE 0])

\* quantity * weight of row i, non-numeric cells counting 0.
MassOf(i) ==
    to_numeric_fillna0(df[i].Quantity) * to_numeric_fillna0(df[i].Weight)

\* price * quantity of row i, non-numeric cells counting 0.
CostOf(i) ==
    to_numeric_fillna0(df[i].Price) * to_numeric_fillna0(df[i].Quantity)

\* C1: a row of the user is in wasted iff its remarks equal "trashed" in any
\* case or its expiry date is strictly before the reference date, and in used
\* otherwise, per row identity: two rows with identical field values that are
\* both expired (or trashed) are both wasted and neither is used.
C1_WastedIffTrashedOrExpired ==
    (out.op = "dashboard" /\ ~out.raised) =>
        \A i \in UserRows :
            /\ (i \in Range(out.dash.wasted)) <=> (i \in WastedRows)
            /\ (i \in Range(out.dash.used)) <=> (i \notin WastedRows)

\* C2: the wasted and used sets the classification computes, in
\* sustainability_dashboard and in top_items, are disjoint and their union is
\* the user's row set.
C2_WastedUsedPartition ==
    (out.op = "dashboard" /\ ~out.raised) =>
        /\ Range(out.dash.wasted) \cap Range(out.dash.used) = {}
        /\ Range(out.dash.wasted) \cup Range(out.dash.used) = UserRows
        /\ Range(out.waste_filtered) \cap Range(out.used_filtered) = {}
        /\ Range(out.waste_filtered) \cup Range(out.used_filtered) = UserRows

\* C3: co2_emitted_kg = (sum of quantity * weight over every trashed or
\* expired row of the user, each once) / 1000 * 2.5, money_wasted the sum of
\* price * quantity over the same rows, co2_saved_kg and money_saved the same
\* sums over the user's other rows; one expired row with quantity 2, weight
\* 1000, price 3 gives 5.0 kg and 6.0.
C3_Co2AndMoneySums ==
    (out.op = "dashboard" /\ ~out.raised) =>
        /\ out.dash.co2_emitted = SumOver(WastedRows, MassOf) * 2500
        /\ out.dash.money_wasted = SumOver(WastedRows, CostOf)
        /\ out.dash.co2_saved = SumOver(UserRows \ WastedRows, MassOf) * 2500
        /\ out.dash.money_saved = SumOver(UserRows \ WastedRows, CostOf)
        /\ (Len(df) = 1 /\ WastedRows = {1} /\ df[1].Quantity = Num(2)) =>
              out.dash.co2_emitted = 5 * MgPerKg /\ out.dash.money_wasted = 6

\* What does hold of sustainability_dashboard: its wasted and used index sets
\* partition the user's rows, every row it calls wasted is trashed or expired,
\* and a row that is both is listed once.
DashboardPartitionsByIndex ==
    (out.op = "dashboard" /\ ~out.raised) =>
        /\ Range(out.dash.wasted) \cap Range(out.dash.used) = {}
        /\ Range(out.dash.wasted) \cup Range(out.dash.used) = UserRows
        /\ Range(out.dash.wasted) \subseteq WastedRows
        /\ Cardinality(Range(out.dash.wasted)) = Len(out.dash.wasted)

\* What does hold of the classification and the sums: they are as C1, C2 and
\* C3 say whenever no two rows of the user are equal in every column.
ClassificationExactWithoutTwins ==
    ~HasTwinRows =>
        /\ C1_WastedIffTrashedOrExpired
        /\ C2_WastedUsedPartition
        /\ C3_Co2AndMoneySums

-----------------------------------------------------------------------------
(* Top-N on ledgers with more than five food names                         *)

\* Bound of the ledgers of SpecTop.
MaxTopRows == 6

\* The food name of each ledger row of SpecTop: ledger order is not
\* alphabetical order.
TopNames == <<"Figs", "Eggs", "Dates", "Corn", "Bread", "Apple", "Grapes">>

\* Ledgers of one user: row i holds TopNames[i], but the last row may hold the
\* first row's food name again; row i has quantity (i + 1) \div 2 or one more,
\* so that sums tie between neighbouring rows; the first two rows are expired
\* or not, the others expired.
InitTop ==
    /\ \E n \in 0..MaxTopRows, again \in BOOLEAN :
        \E c \in [1..n -> {0, 1}], fresh \in SUBSET {1, 2} :
          df = [i \in 1..n |->
                  MkRow("snackhoarder",
                        IF again /\ i = n THEN TopNames[1] ELSE TopNames[i],
                        "Acme", "pack", Num((i + 1) \div 2 + c[i]), Num(1000),
                        Num(3), Date(5),
                        IF i \in fresh THEN Date(11) ELSE Date(9), "")]
    /\ sheet = <<>>
    /\ logged_in = TRUE
    /\ username = "snackhoarder"
    /\ today = 10
    /\ out = NoOut
    /\ session = NoChat
    /\ open_chat = FALSE

NextTop == ShowDashboard

SpecTop == InitTop /\ [][NextTop]_vars

\* The Quantity cell of row i as a number.
QtyOf(i) ==
    to_numeric_fillna0(df[i].Quantity)

\* The summed quantity of food name nm over the rows S.
NameTotal(nm, S) ==
    SumOver({i \in S : df[i].Food_Name = nm}, QtyOf)

\* The first row of S holding food name nm.
FirstRow(nm, S) ==
    CHOOSE i \in S : df[i].Food_Name = nm /\
        \A j \in S : df[j].Food_Name = nm => i <= j

\* top is a top-5 of the rows S: at most 5 rows, one per distinct food name of
\* S, each with the sum of quantity of its food name over S, in non-increasing
\* order of the sums, no left-out food name having a strictly larger sum.
IsTopFive(top, S) ==
    LET names    == {df[i].Food_Name : i \in S}
        returned == {top[a].Food_Name : a \in 1..Len(top)}
    IN  /\ Len(top) <= 5
        /\ Len(top) = IF Cardinality(names) < 5 THEN Cardinality(names) ELSE 5
        /\ returned \subseteq names
        /\ \A a \in 1..Len(top) :
              top[a].Quantity = NameTotal(top[a].Food_Name, S)
        /\ \A a, b \in 1..Len(top) :
              a < b => /\ top[a].Food_Name # top[b].Food_Name
                       /\ top[a].Quantity >= top[b].Quantity
        /\ \A nm \in names \ returned : \A a \in 1..Len(top) :
              NameTotal(nm, S) <= top[a].Quantity

\* In top, groups of equal sum stand in the order of their first rows in S, and
\* a left-out group that ties with a returned one has the later first row.
TiesInLedgerOrder(top, S) ==
    LET names    == {df[i].Food_Name : i \in S}
        returned == {top[a].Food_Name : a \in 1..Len(top)}
    IN  /\ \A a, b \in 1..Len(top) :
              (a < b /\ top[a].Quantity = top[b].Quantity) =>
                  FirstRow(top[a].Food_Name, S) < FirstRow(top[b].Food_Name, S)
        /\ \A nm \in names \ returned : \A a \in 1..Len(top) :
              NameTotal(nm, S) = top[a].Quantity =>
                  FirstRow(top[a].Food_Name, S) < FirstRow(nm, S)

\* C7: top_items returns at most 5 rows, one per distinct food_name of the
\* wasted (mode "waste") or used (other mode) rows of the user, each with the
\* sum of quantity of that food_name, in non-increasing order of the sums, and
\* no omitted food_name has a strictly larger sum than a returned one.
C7_TopFiveOfSelectedRows ==
    (out.op = "dashboard" /\ ~out.raised) =>
        /\ IsTopFive(out.wdf, WastedRows)
        /\ IsTopFive(out.udf, UserRows \ WastedRows)

\* C8: in top_items, of two food_name groups with equal summed quantity the
\* one whose first row comes earlier in the ledger is ranked first, also when
\* the cut at 5 falls between them.
C8_TiesByLedgerOrder ==
    (out.op = "dashboard" /\ ~out.raised) =>
        /\ TiesInLedgerOrder(out.wdf, Range(out.waste_filtered))
        /\ TiesInLedgerOrder(out.udf, Range(out.used_filtered))

\* What does hold of top_items: its result is a top-5 of the rows it grouped
\* (`filtered`), which in mode "waste" lack the later of two equal rows.
TopFiveOfFilteredRows ==
    (out.op = "dashboard" /\ ~out.raised) =>
        /\ IsTopFive(out.wdf, Range(out.waste_filtered))
        /\ IsTopFive(out.udf, Range(out.used_filtered))

\* What does hold of top_items: the result is as C7 says whenever no two rows
\* of the user are equal in every column.
TopFiveExactWithoutTwins ==
    ~HasTwinRows => C7_TopFiveOfSelectedRows

\* A ledger with more than five wasted food names was cut to five rows.
TopCutReached ==
    /\ out.op = "dashboard"
    /\ ~out.raised
    /\ Cardinality({df[i].Food_Name : i \in WastedRows}) > 5
    /\ Len(out.wdf) = 5


-----------------------------------------------------------------------------
(* The worksheet and the session                                           *)

\* The i-th cell of a worksheet row; a cell the row does not reach reads "".
Cell(values, i) ==
    IF i <= Len(values) THEN values[i] ELSE ""

\* worksheet.get_all_records() for one row of cells: a record keyed by the
\* header row of the worksheet "DB", which names the fourteen columns
\* append_row fills, in order, then Remarks.
get_all_records(values) ==
    [Username         |-> Cell(values, 1),
     Date_of_Entry    |-> Cell(values, 2),
     Date_of_Purchase |-> Cell(values, 3),
     Food_Type        |-> Cell(values, 4),
     Brand            |-> Cell(values, 5),
     Food_Name        |-> Cell(values, 6),
     Quantity         |-> Cell(values, 7),
     QUnit            |-> Cell(values, 8),
     Weight           |-> Cell(values, 9),
     WUnit            |-> Cell(values, 10),
     Total_Weight     |-> Cell(values, 11),
     Price            |-> Cell(values, 12),
     Total_Price      |-> Cell(values, 13),
     Expiry_Date      |-> Cell(values, 14),
     Remarks          |-> Cell(values, 15)]

\* df of a script run: the worksheet when logged in, else an empty frame.
LoadFrame(logged, sh) ==
    IF logged THEN [i \in 1..Len(sh) |-> get_all_records(sh[i])] ELSE <<>>

\* A slip: insert_row(values, 1) puts the row first.
insert_row(sh, values) ==
    <<values>> \o sh

\* worksheet.append_row(values)
append_row(sh, values) ==
    Append(sh, values)

\* users: the fixed username -> password mapping.
users ==
    [u \in {"snackhoarder", "canofbeans", "hungryhippo"} |-> "password"]

\* name_map: the fixed username -> display name mapping.
name_map ==
    [u \in {"snackhoarder", "canofbeans", "hungryhippo"} |->
        CASE u = "snackhoarder" -> "Maria"
          [] u = "canofbeans" -> "Juan"
          [] u = "hungryhippo" -> "Hari"]

\* `if not username`: None and "" are falsy.
NoUser(u) ==
    u = None \/ u = ""

\* st.session_state[k] = v
SetKey(s, k, v) ==
    [c \in DOMAIN s \cup {k} |-> IF c = k THEN v ELSE s[c]]

\* The top of the script: show_chat is True when the URL carries open_chat or
\* the key was True, and False when the key is missing.
StartRun(s) ==
    SetKey(s, "show_chat",
           open_chat \/ ("show_chat" \in DOMAIN s /\ s.show_chat))

\* tab2 up to the default of sub_qty_entries: reached with a user logged in;
\* df["Username"] on a frame without columns raises and ends the run.
Tab2Entries(s, u, d) ==
    IF ~NoUser(u) /\ ~KeyError(d, {"Username"}) /\ "sub_qty_entries" \notin DOMAIN s
    THEN SetKey(s, "sub_qty_entries", <<0>>)
    ELSE s

\* A slip: only logged_in and username are reset, the other keys stay.
reset_login_only(s) ==
    s

\* reset_all_session(): every key but logged_in and username is deleted
\* (those two are variables of their own here).
reset_all_session(s) ==
    [k \in {c \in DOMAIN s : c \in {"logged_in", "username"}} |-> s[k]]

\* The login form: on a match the session is set and the script reruns, which
\* loads the worksheet and renders the tabs; otherwise an error is shown.
Login(u, p) ==
    LET ok == u \in DOMAIN users /\ users[u] = p
    IN  /\ ~logged_in
        /\ logged_in' = ok
        /\ username' = IF ok THEN u ELSE username
        /\ df' = LoadFrame(ok, sheet)
        /\ session' = IF ok
                      THEN Tab2Entries(StartRun(StartRun(session)), u,
                                       LoadFrame(TRUE, sheet))
                      ELSE StartRun(session)
        /\ out' = [op |-> "login", ok |-> ok, u |-> u, p |-> p]
        /\ UNCHANGED <<sheet, today, open_chat>>

\* The logout button: reset_all_session(), then the rerun with nobody logged in.
Logout ==
    LET reset == reset_all_session(StartRun(session))
    IN  /\ logged_in
        /\ logged_in' = FALSE
        /\ username' = ""
        /\ df' = LoadFrame(FALSE, sheet)
        /\ session' = StartRun(reset)
        /\ out' = [op |-> "logout", had |-> DOMAIN StartRun(session),
                   kept |-> DOMAIN reset]
        /\ UNCHANGED <<sheet, today, open_chat>>

\* The "Ask SHELI" button: show_chat is toggled, then the run goes on.
AskSheli ==
    LET s0     == StartRun(session)
        loaded == LoadFrame(logged_in, sheet)
    IN  /\ session' = Tab2Entries([s0 EXCEPT !.show_chat = ~@], username, loaded)
        /\ df' = loaded
        /\ out' = [op |-> "ask_sheli"]
        /\ UNCHANGED <<sheet, logged_in, username, today, open_chat>>

-----------------------------------------------------------------------------
(* The chat advisor                                                        *)

\* A slip: the rows of every user, not only the acting one.
unexpired_df_all_users(d, u, t) ==
    SelectSeq(Frame(d), LAMBDA e : DateGe(to_datetime(e.row.Expiry_Date), t))

\* df[(df["Username"] == username) & (to_datetime(df["Expiry_Date"]) >= today)]
unexpired_df(d, u, t) ==
    SelectSeq(Frame(d), LAMBDA e :
        /\ e.row.Username = u
        /\ DateGe(to_datetime(e.row.Expiry_Date), t))

\* The prompt of a chat handler: the display name, one "{Food_Name} (expires
\* {Expiry_Date})" per unexpired row with the cell as the worksheet holds it,
\* and the instruction or the user's question.
Prompt(d, u, t, asked) ==
    LET rows == unexpired_df(d, u, t)
    IN  [name  |-> IF u \in DOMAIN name_map THEN name_map[u] ELSE u,
         items |-> [i \in 1..Len(rows) |->
                       <<rows[i].row.Food_Name, rows[i].row.Expiry_Date>>],
         asked |-> asked]

\* The replies of the Gemini endpoint: a status and, with 200, a text.
Replies ==
    {[status |-> 200, text |-> "Try an omelette"],
     [status |-> 500, text |-> "Internal error"]}

\* ask_gemini(prompt) against an endpoint that answers `reply`: the requests
\* posted and the value returned, None unless the status is 200.
ask_gemini(prompt, reply) ==
    [posts    |-> <<prompt>>,
     response |-> IF reply.status = 200 THEN reply.text ELSE None]

\* A chat handler (a canned button or the form with a question): the pantry
\* list of the acting user is built from the frame of the run, the advisor
\* is asked once and a response is kept as last_response; the run goes on to
\* the tabs.  On a frame without columns df["Username"] raises and ends the
\* run.
ChatHandler(asked, reply) ==
    LET s0     == StartRun(session)
        loaded == LoadFrame(logged_in, sheet)
        prompt == Prompt(loaded, username, today, asked)
        r      == ask_gemini(prompt, reply)
        s1     == IF r.response # None
                  THEN SetKey(s0, "last_response", r.response) ELSE s0
    IN  /\ session.show_chat
        /\ df' = loaded
        /\ IF KeyError(loaded, {"Username", "Expiry_Date"})
           THEN /\ session' = s0
                /\ out' = [op |-> "chat", raised |-> TRUE, asked |-> asked,
                           status |-> 0, posts |-> <<>>, rows |-> <<>>]
           ELSE /\ session' = Tab2Entries(s1, username, loaded)
                /\ out' = [op |-> "chat", raised |-> FALSE, asked |-> asked,
                           status |-> reply.status, posts |-> r.posts,
                           rows |-> IndexSeq(unexpired_df(loaded, username, today))]
        /\ UNCHANGED <<sheet, logged_in, username, today, open_chat>>

\* "Suggest a Recipe"
SuggestRecipe(reply) ==
    ChatHandler("Can you suggest a recipe with items that are about to expire or unexpired?",
                reply)

\* "Give me Recipe Ideas?"
RecipeIdeas(reply) ==
    ChatHandler("Give me recipe ideas that I can prepare based on these items.",
                reply)

\* The chat form: nothing is asked for an empty question.
SendChat(user_query, reply) ==
    IF user_query # ""
    THEN ChatHandler(user_query, reply)
    ELSE /\ session.show_chat
         /\ session' = Tab2Entries(StartRun(session), username,
                                   LoadFrame(logged_in, sheet))
         /\ df' = LoadFrame(logged_in, sheet)
         /\ out' = [op |-> "chat", raised |-> FALSE, asked |-> "",
                    status |-> 0, posts |-> <<>>, rows |-> <<>>]
         /\ UNCHANGED <<sheet, logged_in, username, today, open_chat>>

-----------------------------------------------------------------------------
(* tab2: Subtract Quantity                                                 *)

\* A slip: the subtraction without its floor at zero.
SubtractNoFloor(q, subq) ==
    q - subq

\* max(0, df.at[row_idx, "Quantity"] - subq)
SubtractFloor(q, subq) ==
    IF q - subq > 0 THEN q - subq ELSE 0

\* The rows of frame f with the selected food name and brand: `sel`.
Selected(f, food_sel, brand_sel) ==
    SelectSeq(f, LAMBDA e :
        e.row.Food_Name = food_sel /\ e.row.Brand = brand_sel)

\* sel["Quantity"].sum()
Available(sel) ==
    SumSeq([i \in 1..Len(sel) |-> sel[i].row.Quantity.v])

\* Bound of the subtraction entries of a session.
MaxEntries == 2

\* "Add Another Item": one more subtraction entry, numbered by the length of
\* the list.
AddAnotherItem ==
    LET s0      == StartRun(session)
        loaded  == LoadFrame(logged_in, sheet)
        entries == s0.sub_qty_entries
    IN  /\ logged_in
        /\ "sub_qty_entries" \in DOMAIN session
        /\ ~KeyError(loaded, {"Username"})
        /\ Len(entries) < MaxEntries
        /\ session' = SetKey(s0, "sub_qty_entries", Append(entries, Len(entries)))
        /\ df' = loaded
        /\ out' = [op |-> "add_another_item"]
        /\ UNCHANGED <<sheet, logged_in, username, today, open_chat>>

\* The amounts typed into "Qty to subtract".
SubtractAmounts == 0..4

\* "Update Inventory #idx+1" of any entry idx of the list (the entries differ
\* in their widget keys only): the run loads the worksheet, the user's
\* selection (a food name of theirs, a brand of that food, an amount between 0
\* and the available total, the trash box) is read from the widgets of the
\* entry, and the first selected row of the run's frame is changed; nothing
\* is written back.  The sum of a selection with a non-numeric quantity fails
\* before the button is drawn.
UpdateInventory(trashed) ==
    LET s0         == StartRun(session)
        loaded     == LoadFrame(logged_in, sheet)
        editable   == UserFrame(loaded, username)
        food_names == {editable[i].row.Food_Name : i \in 1..Len(editable)}
    IN  /\ logged_in
        /\ "sub_qty_entries" \in DOMAIN session
        /\ session.sub_qty_entries # <<>>
        /\ ~KeyError(loaded, {"Username"})
        /\ \E food_sel \in food_names :
              LET brands == {editable[i].row.Brand :
                                i \in {j \in 1..Len(editable) :
                                          editable[j].row.Food_Name = food_sel}}
              IN  \E brand_sel \in brands :
                    LET sel       == Selected(editable, food_sel, brand_sel)
                        avail_qty == Available(sel)
                        row_idx   == sel[1].idx
                        before    == loaded[row_idx].Quantity.v
                    IN  /\ \A i \in 1..Len(sel) : sel[i].row.Quantity.k = "num"
                        /\ \E subq \in SubtractAmounts :
                              /\ subq <= avail_qty
                              /\ df' = [loaded EXCEPT
                                    ![row_idx].Quantity =
                                        Num(SubtractFloor(before, subq)),
                                    ![row_idx].Remarks =
                                        IF trashed THEN "trashed" ELSE @]
                              /\ out' = [op |-> "update_inventory",
                                         row_idx |-> row_idx,
                                         food_sel |-> food_sel,
                                         brand_sel |-> brand_sel,
                                         subq |-> subq, trashed |-> trashed,
                                         avail_qty |-> avail_qty,
                                         before |-> before]
        /\ session' = s0
        /\ UNCHANGED <<sheet, logged_in, username, today, open_chat>>

-----------------------------------------------------------------------------
(* tab1 and tab3 in a session: Shelf Life Timer, Smart Grocery List        *)

\* tab1 after its slider moved: the run loads the worksheet and shows
\* get_expiring_items for the user logged in.
ExpirySlider(days) ==
    LET s0     == StartRun(session)
        loaded == LoadFrame(logged_in, sheet)
        r      == get_expiring_items(loaded, username, days, today)
    IN  /\ logged_in
        /\ out' = [op |-> "get_expiring_items", days |-> days, before |-> loaded,
                   raised |-> r.raised, result |-> r.result]
        /\ df' = r.df
        /\ session' = Tab2Entries(s0, username, loaded)
        /\ UNCHANGED <<sheet, logged_in, username, today, open_chat>>

\* tab3 after its slider moved: the run loads the worksheet and shows
\* generate_grocery_list for the user logged in.
GrocerySlider(days) ==
    LET s0     == StartRun(session)
        loaded == LoadFrame(logged_in, sheet)
        r      == generate_grocery_list(loaded, username, days, today)
    IN  /\ logged_in
        /\ ~KeyError(loaded, {"Username"})
        /\ out' = [op |-> "generate_grocery_list", days |-> days, before |-> loaded,
                   raised |-> r.raised, result |-> r.result]
        /\ df' = r.df
        /\ session' = Tab2Entries(s0, username, loaded)
        /\ UNCHANGED <<sheet, logged_in, username, today, open_chat>>

\* The first row of the user with the brand and food name of a checklist
\* row: `o`, the source of the pre-fills.
Prefill(d, u, g) ==
    LET orig == SelectSeq(UserFrame(d, u), LAMBDA e :
                    e.row.Brand = g.Brand /\ e.row.Food_Name = g.Food_Name)
    IN  orig[1].row

\* A slip: food name and brand in each other's place.
PurchaseValuesSwapped(d, u, g, shop_date) ==
    LET o   == Prefill(d, u, g)
        qty == g.Recommended_Quantity
    IN  <<u, Date(shop_date), Date(shop_date), o.Food_Type, g.Food_Name,
          g.Brand, Num(qty), g.QUnit, Num(o.Weight.v), o.WUnit,
          Num(o.Weight.v * qty), Num(o.Price.v), Num(o.Price.v * qty),
          Date(shop_date + 7)>>

\* The list append_row is given for checklist row g: the user, the shopping
\* date twice, the pre-fills and the row's brand, food name, quantity and
\* unit, the totals, and the expiry date a week after the shopping date.
PurchaseValues(d, u, g, shop_date) ==
    LET o   == Prefill(d, u, g)
        qty == g.Recommended_Quantity
    IN  <<u, Date(shop_date), Date(shop_date), o.Food_Type, g.Brand,
          g.Food_Name, Num(qty), g.QUnit, Num(o.Weight.v), o.WUnit,
          Num(o.Weight.v * qty), Num(o.Price.v), Num(o.Price.v * qty),
          Date(shop_date + 7)>>

RECURSIVE AppendChecked(_, _, _, _)
\* The loop over `entries`: append_row for every checked entry from the i-th
\* on, in checklist order.
AppendChecked(sh, rows, checked, i) ==
    IF i > Len(rows) THEN sh
    ELSE AppendChecked(IF i \in checked THEN append_row(sh, rows[i]) ELSE sh,
                       rows, checked, i + 1)

\* Bound of the length the worksheet grows to.
MaxLedgerRows == 3

\* "Items Purchased": the run loads the worksheet, builds the checklist from
\* the grocery list of the slider's days (float() of a pre-fill that is not a
\* number fails before the button is drawn), and appends one row per entry
\* whose box is checked; the frame of the run is the one loaded before.
ItemsPurchased(days, shop_date) ==
    LET s0     == StartRun(session)
        loaded == LoadFrame(logged_in, sheet)
        r      == generate_grocery_list(loaded, username, days, today)
        gl_df  == r.result
        rows   == [i \in 1..Len(gl_df) |->
                      PurchaseValues(loaded, username, gl_df[i], shop_date)]
    IN  /\ logged_in
        /\ Len(sheet) <= MaxLedgerRows
        /\ ~KeyError(loaded, {"Username"})
        /\ ~r.raised
        /\ gl_df # <<>>
        /\ \A i \in 1..Len(gl_df) :
              LET o == Prefill(loaded, username, gl_df[i])
              IN  o.Weight.k = "num" /\ o.Price.k = "num"
        /\ \E checked \in SUBSET (1..Len(gl_df)) :
              /\ Len(sheet) + Cardinality(checked) <= MaxLedgerRows
              /\ sheet' = AppendChecked(sheet, rows, checked, 1)
              /\ out' = [op |-> "items_purchased", days |-> days,
                         shop_date |-> shop_date, gl_df |-> gl_df,
                         checked |-> checked, saved |-> Cardinality(checked)]
        /\ df' = r.df
        /\ session' = Tab2Entries(s0, username, loaded)
        /\ UNCHANGED <<logged_in, username, today, open_chat>>

\* tab4 as the last run left it: drawn from the frame of that run, for the
\* user logged in, when the run came past tab2.
Dashboard ==
    /\ logged_in
    /\ ~KeyError(df, {"Username"})
    /\ ShowDashboard

-----------------------------------------------------------------------------
(* The session specification                                               *)

\* Bound of the worksheets a session starts from.
MaxSheetRows == 2

\* The (username, food name, brand, quantity) of the worksheet rows of Spec:
\* a row of one user (two of them share its food name and brand), one of
\* another brand, and a row of another user.
SheetItems ==
    {<<"snackhoarder", "Milk", "Acme", 1>>, <<"snackhoarder", "Milk", "Best", 2>>,
     <<"canofbeans", "Milk", "Acme", 1>>}

\* Worksheet rows as append_row wrote them: fourteen cells, no remark.
SheetRows ==
    {<<it[1], Date(5), Date(5), "Dairy", it[3], it[2], Num(it[4]), "pack",
       Num(1000), "g", Num(1000 * it[4]), Num(3), Num(3 * it[4]), Date(12)>> :
        it \in SheetItems}

\* A fresh session before anybody logged in, after its first script run.
Init ==
    /\ sheet \in SeqUpTo(SheetRows, MaxSheetRows)
    /\ logged_in = FALSE
    /\ username = None
    /\ df = <<>>
    /\ today = 10
    /\ out = NoOut
    /\ open_chat = FALSE
    /\ session = [show_chat |-> open_chat]

\* The runs of a session that read or write the ledger: the login form, the
\* logout button, and the widgets of the four tabs.
Next ==
    \/ \E u \in {"snackhoarder", "hungryhippo", "nobody"},
          p \in {"password", "letmein"} :
          Login(u, p)
    \/ Logout
    \/ AddAnotherItem
    \/ \E trashed \in BOOLEAN : UpdateInventory(trashed)
    \/ \E days \in {1, 3} : ExpirySlider(days)
    \/ \E days \in {7, 30} : GrocerySlider(days)
    \/ \E days \in {7, 30} : ItemsPurchased(days, today)
    \/ Dashboard

Spec == Init /\ [][Next]_vars

\* C10: from a ledger whose quantities are all >= 0, after any subtraction of
\* an amount between 0 and the displayed available total every row's quantity
\* is still >= 0: an amount larger than the targeted row's quantity leaves 0,
\* a smaller one the difference, and no other row's quantity changes.
C10_QuantityNeverNegative ==
    /\ \A i \in 1..Len(df) : df[i].Quantity.v >= 0
    /\ out.op = "update_inventory" =>
          /\ df[out.row_idx].Quantity.v =
                IF out.subq >= out.before THEN 0 ELSE out.before - out.subq
          /\ \A i \in 1..Len(df) :
                i # out.row_idx =>
                    df[i].Quantity = LoadFrame(TRUE, sheet)[i].Quantity

\* A subtraction over a selection of two rows took more than the first row
\* held, and that row was left at 0.
C10_Witness ==
    /\ out.op = "update_inventory"
    /\ out.subq > out.before
    /\ out.before > 0
    /\ df[out.row_idx].Quantity = Num(0)

\* The worksheet as the next run would load it.
Stored ==
    LoadFrame(TRUE, sheet)

\* C11: across any sequence of logins, expiry queries, subtractions and
\* waste-markings, grocery lists, purchase confirmations, dashboards and
\* logouts, the persisted ledger changes only by rows appended during a
\* purchase confirmation: no stored row is ever modified or removed; a
\* subtraction or waste-marking changes one row of the in-memory copy of its
\* run and nothing stored, and the next load returns the stored rows.
C11_LedgerAppendOnly ==
    [][/\ Len(sheet') >= Len(sheet)
       /\ SubSeq(sheet', 1, Len(sheet)) = sheet
       /\ (sheet' # sheet => out'.op = "items_purchased")
       /\ (out'.op = "update_inventory" =>
              \A i \in 1..Len(df') : i # out'.row_idx => df'[i] = Stored[i])
       /\ (logged_in' /\ out'.op \notin {"update_inventory", "dashboard"}) =>
              df' = Stored]_vars

\* After a purchase was saved, a run marked a row as trashed: the frame of
\* that run says "trashed" where the worksheet still holds the empty remark.
C11_Witness ==
    /\ out.op = "update_inventory"
    /\ out.trashed
    /\ Len(sheet) > MaxSheetRows
    /\ df[out.row_idx].Remarks = "trashed"
    /\ Stored[out.row_idx].Remarks = ""
    /\ df[out.row_idx].Quantity # Stored[out.row_idx].Quantity

\* The n-th smallest element of a set of numbers.
NthOf(S, n) ==
    CHOOSE i \in S : Cardinality({j \in S : j < i}) = n - 1

\* C12: confirming a purchase appends exactly one row of fourteen cells per
\* checked checklist entry and none for an unchecked one, in the order
\* Username, Date_of_Entry, Date_of_Purchase, Food_Type, Brand, Food_Name,
\* Quantity, QUnit, Weight, WUnit, Total_Weight, Price, Total_Price,
\* Expiry_Date; reloaded, each appended row has the food name, brand and
\* quantity of the recommended item it came from and belongs to the acting
\* user.
C12_PurchaseAppendsCheckedRows ==
    out.op = "items_purchased" =>
        LET n0 == Len(df)
        IN  /\ Len(sheet) = n0 + Cardinality(out.checked)
            /\ SubSeq(Stored, 1, n0) = df
            /\ \A n \in 1..Cardinality(out.checked) :
                  LET g   == out.gl_df[NthOf(out.checked, n)]
                      raw == sheet[n0 + n]
                      row == Stored[n0 + n]
                  IN  /\ Len(raw) = 14
                      /\ raw[1] = username
                      /\ raw[2] = Date(out.shop_date)
                      /\ raw[3] = Date(out.shop_date)
                      /\ raw[5] = g.Brand
                      /\ raw[6] = g.Food_Name
                      /\ raw[7] = Num(g.Recommended_Quantity)
                      /\ raw[8] = g.QUnit
                      /\ raw[11] = Num(raw[9].v * g.Recommended_Quantity)
                      /\ raw[13] = Num(raw[12].v * g.Recommended_Quantity)
                      /\ raw[14] = Date(out.shop_date + 7)
                      /\ row.Username = username
                      /\ row.Food_Name = g.Food_Name
                      /\ row.Brand = g.Brand
                      /\ row.Quantity = Num(g.Recommended_Quantity)

\* A checklist of two entries was confirmed with the first unchecked and the
\* second checked: one row was appended, for the second entry's brand.
C12_Witness ==
    /\ out.op = "items_purchased"
    /\ Len(out.gl_df) = 2
    /\ out.checked = {2}
    /\ Len(sheet) = Len(df) + 1
    /\ Stored[Len(sheet)].Brand = out.gl_df[2].Brand
    /\ out.gl_df[1].Brand # out.gl_df[2].Brand

\* The summed quantity of the user's rows of frame d with the food name and
\* brand of the last subtraction.
SelectionTotal(d) ==
    SumSeq([i \in 1..Len(d) |->
        IF /\ d[i].Username = username
           /\ d[i].Food_Name = out.food_sel
           /\ d[i].Brand = out.brand_sel
        THEN d[i].Quantity.v ELSE 0])

\* C17: when the user subtracts an amount q with 0 <= q <= the displayed
\* available total of a (food_name, brand) selection, the total in-memory
\* quantity of the user's rows with that food name and brand decreases by
\* exactly q, also when the selection spans several rows; with the trash box
\* unchecked no row's remarks change.
C17_SubtractionTakesExactAmount ==
    out.op = "update_inventory" =>
        /\ SelectionTotal(df) = SelectionTotal(Stored) - out.subq
        /\ out.avail_qty = SelectionTotal(Stored)
        /\ ~out.trashed => \A i \in 1..Len(df) : df[i].Remarks = Stored[i].Remarks

\* What does hold of a subtraction: the total decreases by the amount, or by
\* what the first selected row held when that is less.
SubtractionTakesFromFirstRow ==
    out.op = "update_inventory" =>
        SelectionTotal(df) = SelectionTotal(Stored) -
            (IF out.subq < out.before THEN out.subq ELSE out.before)

-----------------------------------------------------------------------------
(* Sessions with the chat advisor                                          *)

\* Bound of the worksheets of SpecSession.
MaxSessionRows == 1

\* The worksheet rows of SpecSession: one row kind per user.
SessionRows ==
    {r \in SheetRows : r[5] = "Acme"}

\* A fresh session, with or without open_chat in the URL.
InitSession ==
    /\ sheet \in SeqUpTo(SessionRows, MaxSessionRows)
    /\ logged_in = FALSE
    /\ username = None
    /\ df = <<>>
    /\ today = 10
    /\ out = NoOut
    /\ open_chat \in BOOLEAN
    /\ session = [show_chat |-> open_chat]

\* The questions typed into the chat form.
Questions == {"", "What can I cook tonight?"}

\* The runs of the chat panel of the sidebar.
NextChat ==
    \/ AskSheli
    \/ \E reply \in Replies : SuggestRecipe(reply)
    \/ \E reply \in Replies : RecipeIdeas(reply)
    \/ \E user_query \in Questions, reply \in Replies : SendChat(user_query, reply)

NextSession ==
    \/ Next
    \/ NextChat

SpecSession == InitSession /\ [][NextSession]_vars

\* What the analytics, the ledger and the advisor produce.
UserOps ==
    {"get_expiring_items", "generate_grocery_list", "dashboard",
     "update_inventory", "items_purchased", "add_another_item"}

\* C18: login succeeds only when the entered password equals the fixed
\* password of an existing username; after logout, from any reachable session
\* state, logged_in is false, the username is empty and every other session
\* key is cleared (reset_all_session keeps none; the rerun leaves the session
\* of a fresh start: chat visibility at its initial value, no chat response,
\* no subtraction entries), so that until a later successful login no
\* analytics, no ledger load and no earlier chat response is available.
C18_LoginAndLogoutReset ==
    /\ out.op = "login" =>
          /\ out.ok <=> (out.u \in DOMAIN users /\ users[out.u] = out.p)
          /\ out.ok <=> logged_in
          /\ out.ok => username = out.u
    /\ out.op = "logout" =>
          /\ ~logged_in
          /\ username = ""
          /\ out.kept = {}
          /\ session = [show_chat |-> open_chat]
    /\ ~logged_in =>
          /\ df = <<>>
          /\ DOMAIN session = {"show_chat"}
          /\ out.op \notin UserOps
          /\ out.op = "chat" => out.posts = <<>>
    /\ logged_in => username \in DOMAIN users

\* A logout from a session that held a chat response and subtraction entries.
C18_Witness ==
    /\ out.op = "logout"
    /\ {"last_response", "sub_qty_entries", "show_chat"} \subseteq out.had
    /\ ~logged_in
    /\ DOMAIN session = {"show_chat"}

-----------------------------------------------------------------------------
(* The prompts of the chat advisor                                         *)

\* Bound of the worksheets of SpecChat.
MaxChatRows == 2

\* Rows of two users that are expired, expire today or later, or hold an
\* expiry date that does not parse.
ChatRows ==
    {<<u, Date(5), Date(5), "Dairy", "Acme", "Milk", Num(1), "pack",
       Num(1000), "g", Num(1000), Num(3), Num(3), ex>> :
        u \in {"snackhoarder", "canofbeans"},
        ex \in {Date(9), Date(10), Date(11), Text(0)}}

InitChat ==
    /\ sheet \in SeqUpTo(ChatRows, MaxChatRows)
    /\ logged_in = FALSE
    /\ username = None
    /\ df = <<>>
    /\ today = 10
    /\ out = NoOut
    /\ open_chat = FALSE
    /\ session = [show_chat |-> open_chat]

NextLogin ==
    \/ \E u \in {"snackhoarder", "canofbeans"} : Login(u, "password")
    \/ Logout

SpecChat == InitChat /\ [][NextLogin \/ NextChat]_vars

\* The rows of the acting user whose expiry date parses and is not before
\* the reference date.
UnexpiredRows ==
    {i \in 1..Len(df) :
        /\ df[i].Username = username
        /\ df[i].Expiry_Date.k = "date"
        /\ df[i].Expiry_Date.v >= today}

\* C16: every prompt sent to the chat advisor, by a canned button or the
\* free-form question, lists exactly the rows whose Username is the acting
\* logged-in user and whose expiry date parses and is >= the reference date
\* (no row of another user, no expired row, no row with an unparseable expiry
\* date), and the advisor is called at most once per user action, also when
\* it fails.
C16_PromptListsOwnUnexpiredRows ==
    out.op = "chat" =>
        /\ Len(out.posts) <= 1
        /\ out.posts # <<>> =>
              LET prompt == out.posts[1]
              IN  /\ logged_in
                  /\ prompt.name = name_map[username]
                  /\ prompt.asked = out.asked
                  /\ Range(out.rows) = UnexpiredRows
                  /\ \A a, b \in 1..Len(out.rows) : a < b => out.rows[a] < out.rows[b]
                  /\ Len(prompt.items) = Len(out.rows)
                  /\ \A n \in 1..Len(out.rows) :
                        prompt.items[n] = <<df[out.rows[n]].Food_Name,
                                            df[out.rows[n]].Expiry_Date>>

\* A prompt was sent once to an endpoint that failed; it lists one row of
\* the acting user and leaves out the other row, which is expired, does not
\* parse or belongs to the other user.
C16_Witness ==
    /\ out.op = "chat"
    /\ out.status = 500
    /\ Len(out.posts) = 1
    /\ Len(df) = 2
    /\ Len(out.rows) = 1
    /\ "last_response" \notin DOMAIN session

-----------------------------------------------------------------------------
(* The analytics functions and the frame they are given                    *)

\* Bound of the worksheets of SpecFrame.
MaxFrameRows == 2

\* Worksheet rows of two users: one with clean cells, one whose expiry date
\* does not parse and that is marked as trashed, and one whose dates and
\* quantity do not parse.
FrameRows ==
    {<<u, c[1], c[1], "Dairy", "Acme", "Milk", c[2], "pack", Num(1000), "g",
       Num(2000), Num(3), Num(6), c[3], c[4]>> :
        u \in {"snackhoarder", "canofbeans"},
        c \in {<<Date(5), Num(2), Date(12), "">>,
               <<Date(5), Num(2), Text(0), "Trashed">>,
               <<Text(0), Text(0), Text(0), "TRASHED">>}}

\* A run with the worksheet loaded, for the calls of the tabs (which pass the
\* user logged in) and for calls that pass no username.
InitFrame ==
    /\ sheet \in SeqUpTo(FrameRows, MaxFrameRows)
    /\ logged_in = TRUE
    /\ username \in {"snackhoarder", None}
    /\ df = LoadFrame(TRUE, sheet)
    /\ today = 10
    /\ out = NoOut
    /\ open_chat = FALSE
    /\ session = [show_chat |-> FALSE, sub_qty_entries |-> <<0>>]

NextFrame ==
    \/ \E days \in {1, 3} : ShowExpiring(days)
    \/ \E days \in {7, 30} : ShowGroceryList(days)
    \/ ShowDashboard
    \/ \E trashed \in BOOLEAN : UpdateInventory(trashed)

SpecFrame == InitFrame /\ [][NextFrame]_vars

\* C13: a call of get_expiring_items, generate_grocery_list,
\* sustainability_dashboard or top_items leaves the in-memory row set passed
\* to it unchanged: the same rows with the same field values, the raw
\* unparsed date, quantity and remarks values included; the only operation
\* that changes a row of the in-memory set is the quantity subtraction /
\* waste-marking.
C13_AnalyticsLeaveFrameUnchanged ==
    [][/\ (out'.op \in {"get_expiring_items", "generate_grocery_list"}) =>
              (df' = df /\ df' = out'.before)
       /\ (out'.op = "dashboard") => df' = df
       /\ (df' # df) => out'.op = "update_inventory"]_vars

\* generate_grocery_list returned a list from a frame that, after the call,
\* still holds a row with its unparsed dates and quantity and its remark as
\* written, next to the row the list came from.
C13_Witness ==
    /\ out.op = "generate_grocery_list"
    /\ out.result # <<>>
    /\ df = out.before
    /\ \E i, j \in 1..Len(df) :
          /\ df[i].Date_of_Entry = Text(0)
          /\ df[i].Quantity = Text(0)
          /\ df[i].Remarks = "TRASHED"
          /\ df[j].Date_of_Entry = Date(5)

-----------------------------------------------------------------------------
(* Frames that lack a column                                               *)

\* The record without the columns cs.
Without(row, cs) ==
    [c \in DOMAIN row \ cs |-> row[c]]

\* Bound of the ledgers of SpecColumns.
MaxColumnsRows == 2

\* Rows of two users, entered long ago or within the last 30 days.
ColumnsRows ==
    {MkRow(u, "Milk", "Acme", "pack", Num(30), Num(1000), Num(3), de, ex, "") :
        u \in {"snackhoarder", "canofbeans"},
        de \in {Date(5), Date(30)},
        ex \in {Date(41), Text(0)}}

\* The sets of columns a worksheet may lack.
MissingColumns ==
    {{}, {"Expiry_Date"}, {"Date_of_Entry"}, {"Username"},
     {"Expiry_Date", "Date_of_Entry"}}

InitColumns ==
    /\ \E d \in SeqUpTo(ColumnsRows, MaxColumnsRows), cs \in MissingColumns :
          df = [i \in 1..Len(d) |-> Without(d[i], cs)]
    /\ sheet = <<>>
    /\ logged_in = TRUE
    /\ username \in {"snackhoarder", None}
    /\ today = 40
    /\ out = NoOut
    /\ session = NoChat
    /\ open_chat = FALSE

NextColumns ==
    \/ \E days \in {1, 2} : ShowExpiring(days)
    \/ \E days \in {7, 30} : ShowGroceryList(days)

SpecColumns == InitColumns /\ [][NextColumns]_vars

\* No row of the requested user (any row, when no user is requested or the
\* frame has no Username column) was entered in the last 30 days.
NoRecentRow ==
    ~\E i \in 1..Len(df) :
        /\ ("Username" \in columns(df) /\ username # None) => df[i].Username = username
        /\ df[i].Date_of_Entry.k = "date"
        /\ df[i].Date_of_Entry.v >= today - 30

\* C14: on a ledger that is empty or lacks the Expiry_Date column
\* get_expiring_items returns an empty result; on a ledger that is empty,
\* lacks the Date_of_Entry column or has no row of the user in the last 30
\* days generate_grocery_list returns an empty result; in none of these cases
\* does the function fail.
C14_MissingColumnGivesEmptyResult ==
    /\ (out.op = "get_expiring_items"
          /\ (df = <<>> \/ "Expiry_Date" \notin columns(df))) =>
            (~out.raised /\ out.result = <<>>)
    /\ (out.op = "generate_grocery_list"
          /\ (df = <<>> \/ "Date_of_Entry" \notin columns(df) \/ NoRecentRow)) =>
            (~out.raised /\ out.result = <<>>)

\* Both functions were called on a ledger of two rows without the column
\* they test for, and generate_grocery_list on one whose rows are all older
\* than 30 days.
C14_Witness ==
    /\ Len(df) = 2
    /\ out.op \in {"get_expiring_items", "generate_grocery_list"}
    /\ ~out.raised
    /\ out.result = <<>>
    /\ \/ out.op = "get_expiring_items" /\ "Expiry_Date" \notin columns(df)
       \/ out.op = "generate_grocery_list" /\ "Date_of_Entry" \notin columns(df)
       \/ /\ out.op = "generate_grocery_list"
          /\ "Date_of_Entry" \in columns(df)
          /\ NoRecentRow

-----------------------------------------------------------------------------
(* The dashboard of a user without a dated row                             *)

\* C15: sustainability_dashboard returns its CO2 and money metrics without
\* failing for every ledger and user, a user who has no rows and a user none
\* of whose rows has a parseable date_of_entry included.
C15_DashboardNeverFails ==
    out.op = "dashboard" => ~out.raised

\* What does hold of sustainability_dashboard: it fails exactly when no row
\* of the user has a date of entry that parses.
DashboardFailsWithoutDatedRow ==
    out.op = "dashboard" =>
        (out.raised <=>
            ~\E i \in 1..Len(df) :
                df[i].Username = username /\ df[i].Date_of_Entry.k = "date")

====
